---- MODULE Spec2Model ----
(***************************************************************************)
(* Model of src/app/page.tsx: the Home component of the submission form.   *)
(* The React state cells, the pending continuations of the asynchronous    *)
(* handlers (handleFileChange awaiting its thumbnails, handleSubmit        *)
(* awaiting an upload or the insert) and the remote services' visible      *)
(* effects are the state; every user event and every I/O completion is one *)
(* action.                                                                 *)
(***************************************************************************)
EXTENDS Integers, Sequences, FiniteSets, TLC

\* ------------------------------------------------------------------ bounds

\* How many user events (select, remove, submit) one behaviour contains.
MaxEvents == 3

\* ------------------------------------------------------- program constants

\* if (selected.length > 10)
MaxFiles == 10

CapacityMsg == "You can upload a maximum of 10 files."
UploadFailedMsg == "Upload failed. Please try again."

\* ---------------------------------------------------------------- files

\* A file is identified by a number; files 1 and 2 are media.
FileType(f) ==
  IF f = 1 THEN "video/mp4" ELSE IF f = 2 THEN "image/png" ELSE "text/plain"

IsVideo(f) == FileType(f) = "video/mp4"
IsImage(f) == FileType(f) = "image/png"
IsMedia(f) == IsVideo(f) \/ IsImage(f)

\* A preview is a string: the empty string, or the data URI that
\* canvas.toDataURL("image/png") gives for the file's frame / picture.
Empty == <<>>
DataUrl(f) == <<"data:image/png", f>>

\* What the file picker can hand to handleFileChange: nothing, a document,
\* a video, two and three files of mixed kinds, a full selection, and two
\* selections above the cap.
FirstFiles(n) == [i \in 1..n |-> i]
Documents(n) == [i \in 1..n |-> i + 2]

Offered ==
  {<<>>, <<3>>, <<1>>, <<3, 2>>, <<1, 2, 3>>, Documents(MaxFiles),
   FirstFiles(MaxFiles + 1), Documents(MaxFiles + 1)}

\* files.filter((_, i) => i !== index), index counted from 1 here.
RECURSIVE FilterOut(_, _)
FilterOut(s, index) ==
  IF s = <<>> THEN <<>>
  ELSE IF index = 1 THEN Tail(s)
  ELSE <<Head(s)>> \o FilterOut(Tail(s), index - 1)

\* Math.round(x) is floor(x + 1/2); x = ((i + 1) / n) * 100 is computed in
\* doubles, which for n <= 10 never lands on the other side of a half: the
\* only exact halves (n = 8) are exact in binary.
RoundCeil(done, total) == (100 * done + total - 1) \div total
RoundFloor(done, total) == (100 * done) \div total
Round(done, total) == (200 * done + total) \div (2 * total)

\* The uploaded-file record pushed for a file.
PublicUrl(f) == <<"publicUrl", f>>
UploadedRecord(f) == [name |-> f, url |-> PublicUrl(f)]

PushFront(uploaded, f) == <<UploadedRecord(f)>> \o uploaded
Push(uploaded, f) == Append(uploaded, UploadedRecord(f))

\* ---------------------------------------------------------------- state

VARIABLES
  submitting,     \* useState(false)
  success,        \* useState(false)
  error,          \* useState("")
  files,          \* useState<File[]>([])
  filePreviews,   \* useState<string[]>([])
  progress,       \* useState<number>(0)
  jobs,           \* handleFileChange calls suspended at await Promise.all
  sub,            \* the handleSubmit call: its closure and where it awaits
  attempted,      \* files whose upload was called, this submission
  insertCalls,    \* insert calls made, this submission
  failedAt,       \* which upload of this submission failed (0: none)
  progressLog,    \* values the upload loop passed to setProgress
  bucket,         \* objects in the storage bucket
  table,          \* rows of the submissions table
  urlsCreated,    \* URL.createObjectURL calls
  urlsRevoked,    \* URL.revokeObjectURL calls
  confetti,       \* confetti() calls
  fileName,       \* file.name of the file a storage key is made for
  filePath,       \* the storage key made for it ("" before)
  nEvents,        \* user events so far
  lastOp          \* the handler that ran last

react == <<submitting, success, error, files, filePreviews, progress>>
history == <<attempted, insertCalls, failedAt, progressLog, bucket, table,
             urlsCreated, urlsRevoked, confetti>>
naming == <<fileName, filePath>>
vars == <<react, jobs, sub, history, naming, nEvents, lastOp>>

Init ==
  /\ submitting = FALSE
  /\ success = FALSE
  /\ error = ""
  /\ files = <<>>
  /\ filePreviews = <<>>
  /\ progress = 0
  /\ jobs = <<>>
  /\ sub = [pc |-> "none", files |-> <<>>, i |-> 0, uploadedFiles |-> <<>>]
  /\ attempted = <<>>
  /\ insertCalls = 0
  /\ failedAt = 0
  /\ progressLog = <<>>
  /\ bucket = {}
  /\ table = <<>>
  /\ urlsCreated = 0
  /\ urlsRevoked = 0
  /\ confetti = 0
  /\ fileName = <<>>
  /\ filePath = <<>>
  /\ nEvents = 0
  /\ lastOp = "Init"

\* ------------------------------------------------------------ rendering

\* {!success ? <form ...> : <div>Thank you ...</div>}
FormRendered == ~success

\* A submit button that is never disabled.
SubmitNeverDisabled == FormRendered
\* <button type="submit" disabled={submitting}>
SubmitOffered == FormRendered /\ ~submitting

\* filePreviews.map((src, idx) => ... onClick={() => removeFile(idx)})
RemoveOffered(index) == FormRendered /\ index \in 1..Len(filePreviews)

\* A handleFileChange call whose thumbnails have all resolved continues in a
\* microtask, before the next event is dispatched.
Ready(job) == job.loading = {}
NoReadyJob == \A j \in DOMAIN jobs : ~Ready(jobs[j])

\* ------------------------------------------------------ generateThumbnail

\* The promises generateThumbnail returns for a selection: a video or an
\* image gets an object URL and waits for its load or error event, any other
\* file resolves to "" at once.
StartThumbnails(selected) ==
  [selected |-> selected,
   previews |-> [i \in DOMAIN selected |-> Empty],
   loading  |-> {i \in DOMAIN selected : IsMedia(selected[i])}]

MediaCount(selected) == Cardinality({i \in DOMAIN selected : IsMedia(selected[i])})

\* A join that fills the media slots in the order the promises resolve.
ResolveInArrivalOrder(j, i, value) ==
  LET media == {k \in DOMAIN jobs[j].selected : IsMedia(jobs[j].selected[k])}
      arrived == Cardinality(media) - Cardinality(jobs[j].loading)
      slot == CHOOSE k \in media : Cardinality({m \in media : m < k}) = arrived
  IN jobs' = [jobs EXCEPT ![j].previews[slot] = value,
                          ![j].loading = jobs[j].loading \ {i}]
\* Promise.all keeps each promise's value at the promise's own index.
Resolve(j, i, value) ==
  jobs' = [jobs EXCEPT ![j].previews[i] = value,
                       ![j].loading = jobs[j].loading \ {i}]

SubmissionUnchanged ==
  UNCHANGED <<sub, attempted, insertCalls, failedAt, progressLog, bucket, table,
              confetti>>

\* video.onloadeddata / img.onload: draw, resolve, revoke the object URL.
\* getContext("2d") may give null, and the promise then resolves to "".
MediaLoaded(j, i, ctx) ==
  /\ NoReadyJob
  /\ j \in DOMAIN jobs
  /\ i \in jobs[j].loading
  /\ Resolve(j, i, IF ctx THEN DataUrl(jobs[j].selected[i]) ELSE Empty)
  /\ urlsRevoked' = urlsRevoked + 1
  /\ lastOp' = "MediaLoaded"
  /\ UNCHANGED <<react, urlsCreated, nEvents>>
  /\ SubmissionUnchanged

\* video.onerror / img.onerror: () => resolve("").
MediaError(j, i) ==
  /\ NoReadyJob
  /\ j \in DOMAIN jobs
  /\ i \in jobs[j].loading
  /\ Resolve(j, i, Empty)
  /\ lastOp' = "MediaError"
  /\ UNCHANGED <<react, urlsCreated, urlsRevoked, nEvents>>
  /\ SubmissionUnchanged

\* ------------------------------------------------------- handleFileChange

OverCapacityOffByOne(selected) == Len(selected) > MaxFiles + 1
OverCapacity(selected) == Len(selected) > MaxFiles

AcceptPrefix(selected) ==
  /\ error' = CapacityMsg
  /\ files' = SubSeq(selected, 1, MaxFiles)
  /\ filePreviews' = <<>>
RejectSelection(selected) ==
  /\ error' = CapacityMsg
  /\ files' = <<>>
  /\ filePreviews' = <<>>

\* The handler up to its await.
Select(selected) ==
  /\ FormRendered
  /\ NoReadyJob
  /\ nEvents < MaxEvents
  /\ nEvents' = nEvents + 1
  /\ IF OverCapacity(selected)
       THEN /\ RejectSelection(selected)
            /\ lastOp' = "SelectOver"
            /\ UNCHANGED <<jobs, urlsCreated>>
       ELSE /\ error' = ""
            /\ files' = selected
            /\ jobs' = Append(jobs, StartThumbnails(selected))
            /\ urlsCreated' = urlsCreated + MediaCount(selected)
            /\ lastOp' = "Select"
            /\ UNCHANGED filePreviews
  /\ UNCHANGED <<submitting, success, progress, urlsRevoked>>
  /\ SubmissionUnchanged

\* The handler after its await: setFilePreviews(previews).
ThumbsDone(j) ==
  /\ j \in DOMAIN jobs
  /\ Ready(jobs[j])
  /\ filePreviews' = jobs[j].previews
  /\ jobs' = FilterOut(jobs, j)
  /\ lastOp' = "ThumbsDone"
  /\ UNCHANGED <<submitting, success, error, files, progress>>
  /\ UNCHANGED <<urlsCreated, urlsRevoked, nEvents>>
  /\ SubmissionUnchanged

\* ------------------------------------------------------------- removeFile

Remove(index) ==
  /\ RemoveOffered(index)
  /\ NoReadyJob
  /\ nEvents < MaxEvents
  /\ nEvents' = nEvents + 1
  /\ files' = FilterOut(files, index)
  /\ filePreviews' = FilterOut(filePreviews, index)
  /\ lastOp' = "Remove"
  /\ UNCHANGED <<submitting, success, error, progress, jobs>>
  /\ UNCHANGED <<urlsCreated, urlsRevoked>>
  /\ SubmissionUnchanged

\* ----------------------------------------------------------- handleSubmit

\* setSubmitting(true); setError(""); setSuccess(false); setProgress(0);
BeginKeepError ==
  /\ submitting' = TRUE
  /\ success' = FALSE
  /\ progress' = 0
  /\ UNCHANGED error
Begin ==
  /\ submitting' = TRUE
  /\ error' = ""
  /\ success' = FALSE
  /\ progress' = 0

\* catch { setSubmitting(false); setError(...); setProgress(0); }
CatchKeepSubmitting ==
  /\ UNCHANGED submitting
  /\ error' = UploadFailedMsg
  /\ progress' = 0
CatchKeepProgress ==
  /\ submitting' = FALSE
  /\ error' = UploadFailedMsg
  /\ UNCHANGED progress
Catch ==
  /\ submitting' = FALSE
  /\ error' = UploadFailedMsg
  /\ progress' = 0

\* setSubmitting(false); setSuccess(true); setFiles([]); setFilePreviews([]);
\* setProgress(0); and the effect on [success] fires the confetti.
Succeed ==
  /\ submitting' = FALSE
  /\ success' = TRUE
  /\ files' = <<>>
  /\ filePreviews' = <<>>
  /\ progress' = 0
  /\ confetti' = IF success THEN confetti ELSE confetti + 1

\* A loop that starts the next upload without awaiting the one before.
UploadsCalledAhead(selected, i) ==
  SubSeq(selected, i, IF i < Len(selected) THEN i + 1 ELSE i)
\* The uploads called when the loop reaches file i: that file's, awaited.
UploadsCalled(selected, i) == <<selected[i]>>

\* The handler up to its first await: the upload of files[0], or the insert
\* when no file is selected. The loop reads the files of this render.
Submit ==
  /\ SubmitOffered
  /\ NoReadyJob
  /\ nEvents < MaxEvents
  /\ nEvents' = nEvents + 1
  /\ Begin
  /\ failedAt' = 0
  /\ progressLog' = <<>>
  /\ IF files = <<>>
       THEN /\ sub' = [pc |-> "insert", files |-> files, i |-> 0,
                       uploadedFiles |-> <<>>]
            /\ attempted' = <<>>
            /\ insertCalls' = 1
       ELSE /\ sub' = [pc |-> "upload", files |-> files, i |-> 1,
                       uploadedFiles |-> <<>>]
            /\ attempted' = UploadsCalled(files, 1)
            /\ insertCalls' = 0
  /\ lastOp' = "Submit"
  /\ UNCHANGED <<files, filePreviews, jobs, bucket, table, confetti>>
  /\ UNCHANGED <<urlsCreated, urlsRevoked>>

\* The upload of files[i] returned without error: push the record, set the
\* progress, and call the next upload, or the insert after the last file.
UploadOk ==
  /\ sub.pc = "upload"
  /\ NoReadyJob
  /\ LET n == Len(sub.files)
         file == sub.files[sub.i]
         uploaded == Push(sub.uploadedFiles, file)
     IN /\ bucket' = bucket \cup {file}
        /\ progress' = Round(sub.i, n)
        /\ progressLog' = Append(progressLog, Round(sub.i, n))
        /\ IF sub.i < n
             THEN /\ sub' = [sub EXCEPT !.i = sub.i + 1, !.uploadedFiles = uploaded]
                  /\ attempted' = attempted \o UploadsCalled(sub.files, sub.i + 1)
                  /\ UNCHANGED insertCalls
             ELSE /\ sub' = [sub EXCEPT !.pc = "insert", !.uploadedFiles = uploaded]
                  /\ insertCalls' = insertCalls + 1
                  /\ UNCHANGED attempted
  /\ lastOp' = "UploadOk"
  /\ UNCHANGED <<submitting, success, error, files, filePreviews, jobs>>
  /\ UNCHANGED <<failedAt, table, confetti, urlsCreated, urlsRevoked, nEvents>>

\* A catch that also resets the selection, as the success branch does.
UploadFailClearing ==
  /\ sub.pc = "upload"
  /\ NoReadyJob
  /\ Catch
  /\ files' = <<>>
  /\ filePreviews' = <<>>
  /\ sub' = [sub EXCEPT !.pc = "none"]
  /\ failedAt' = sub.i
  /\ lastOp' = "UploadFail"
  /\ UNCHANGED <<success, jobs>>
  /\ UNCHANGED <<attempted, insertCalls, progressLog, bucket, table, confetti>>
  /\ UNCHANGED <<urlsCreated, urlsRevoked, nEvents>>

\* if (uploadError) throw uploadError;
UploadFail ==
  /\ sub.pc = "upload"
  /\ NoReadyJob
  /\ Catch
  /\ sub' = [sub EXCEPT !.pc = "none"]
  /\ failedAt' = sub.i
  /\ lastOp' = "UploadFail"
  /\ UNCHANGED <<success, files, filePreviews, jobs>>
  /\ UNCHANGED <<attempted, insertCalls, progressLog, bucket, table, confetti>>
  /\ UNCHANGED <<urlsCreated, urlsRevoked, nEvents>>

\* The insert returned without error.
InsertOk ==
  /\ sub.pc = "insert"
  /\ NoReadyJob
  /\ table' = Append(table, [files |-> sub.uploadedFiles])
  /\ Succeed
  /\ sub' = [sub EXCEPT !.pc = "none"]
  /\ lastOp' = "InsertOk"
  /\ UNCHANGED <<error, jobs, attempted, insertCalls, failedAt, progressLog, bucket>>
  /\ UNCHANGED <<urlsCreated, urlsRevoked, nEvents>>

\* if (insertError) throw insertError;
InsertFail ==
  /\ sub.pc = "insert"
  /\ NoReadyJob
  /\ Catch
  /\ sub' = [sub EXCEPT !.pc = "none"]
  /\ lastOp' = "InsertFail"
  /\ UNCHANGED <<success, files, filePreviews, jobs>>
  /\ UNCHANGED <<attempted, insertCalls, failedAt, progressLog, bucket, table, confetti>>
  /\ UNCHANGED <<urlsCreated, urlsRevoked, nEvents>>

\* ------------------------------------------------------------------ system

Next ==
  \/ \E selected \in Offered : Select(selected) /\ UNCHANGED naming
  \/ \E j \in DOMAIN jobs : ThumbsDone(j) /\ UNCHANGED naming
  \/ \E j \in DOMAIN jobs : \E i \in jobs[j].loading :
        \E ctx \in BOOLEAN : MediaLoaded(j, i, ctx) /\ UNCHANGED naming
  \/ \E j \in DOMAIN jobs : \E i \in jobs[j].loading :
        MediaError(j, i) /\ UNCHANGED naming
  \/ \E index \in 1..MaxFiles : Remove(index) /\ UNCHANGED naming
  \/ Submit /\ UNCHANGED naming
  \/ UploadOk /\ UNCHANGED naming
  \/ UploadFail /\ UNCHANGED naming
  \/ InsertOk /\ UNCHANGED naming
  \/ InsertFail /\ UNCHANGED naming

Spec == Init /\ [][Next]_vars

\* Every remote call returns, and a continuation that can run does run.
RemoteReturns ==
  (UploadOk \/ UploadFail \/ InsertOk \/ InsertFail) /\ UNCHANGED naming
Continues == (\E j \in DOMAIN jobs : ThumbsDone(j)) /\ UNCHANGED naming

FairSpec == Spec /\ WF_vars(RemoteReturns) /\ WF_vars(Continues)

\* The upload pipeline alone, for every size of selection the cap admits:
\* it starts where one select event of n files has finished its thumbnails,
\* and from there only handleSubmit and the remote calls' completions run.
LoadedPreviews(selected) ==
  [i \in DOMAIN selected |->
     IF IsMedia(selected[i]) THEN DataUrl(selected[i]) ELSE Empty]

InitPipeline ==
  \E n \in 0..MaxFiles :
    /\ submitting = FALSE
    /\ success = FALSE
    /\ error = ""
    /\ files = FirstFiles(n)
    /\ filePreviews = LoadedPreviews(FirstFiles(n))
    /\ progress = 0
    /\ jobs = <<>>
    /\ sub = [pc |-> "none", files |-> <<>>, i |-> 0, uploadedFiles |-> <<>>]
    /\ attempted = <<>>
    /\ insertCalls = 0
    /\ failedAt = 0
    /\ progressLog = <<>>
    /\ bucket = {}
    /\ table = <<>>
    /\ urlsCreated = MediaCount(FirstFiles(n))
    /\ urlsRevoked = MediaCount(FirstFiles(n))
    /\ confetti = 0
    /\ fileName = <<>>
    /\ filePath = <<>>
    /\ nEvents = 1
    /\ lastOp = "ThumbsDone"

NextPipeline ==
  \/ Submit /\ UNCHANGED naming
  \/ UploadOk /\ UNCHANGED naming
  \/ UploadFail /\ UNCHANGED naming
  \/ InsertOk /\ UNCHANGED naming
  \/ InsertFail /\ UNCHANGED naming

SpecPipeline == InitPipeline /\ [][NextPipeline]_vars

\* ------------------------------------------------------- sanitizeFileName

\* A name is its sequence of UTF-16 code units, which is what the regular
\* expression (no u flag) works on.
Underscore == 95

\* [a-zA-Z0-9._-]
InClass(c) ==
  \/ 97 <= c /\ c <= 122
  \/ 65 <= c /\ c <= 90
  \/ 48 <= c /\ c <= 57
  \/ c \in {46, 95, 45}

\* replace without the g flag: only the first match is replaced.
RECURSIVE sanitizeFirstOnly(_)
sanitizeFirstOnly(name) ==
  IF name = <<>> THEN <<>>
  ELSE IF InClass(Head(name)) THEN <<Head(name)>> \o sanitizeFirstOnly(Tail(name))
  ELSE <<Underscore>> \o Tail(name)
\* name.replace(/[^a-zA-Z0-9._-]/g, '_')
RECURSIVE sanitizeFileName(_)
sanitizeFileName(name) ==
  IF name = <<>> THEN <<>>
  ELSE <<IF InClass(Head(name)) THEN Head(name) ELSE Underscore>>
         \o sanitizeFileName(Tail(name))

\* The decimal digits of a number, as a template literal writes them.
RECURSIVE Decimal(_)
Decimal(n) ==
  IF n < 10 THEN <<48 + n>> ELSE Decimal(n \div 10) \o <<48 + (n % 10)>>

\* `${Date.now()}_${sanitizeFileName(file.name)}`
FilePath(now, name) == Decimal(now) \o <<Underscore>> \o sanitizeFileName(name)

\* The code units names are made of here: the ends of the three ranges and
\* their neighbours, the three single characters, a space, a parenthesis, a
\* slash, an accented letter and half of a surrogate pair.
CodeUnits ==
  {96, 97, 122, 123, 64, 65, 90, 91, 47, 48, 57, 58, 46, 95, 45, 32, 40, 233, 55357}

\* Longest name made of them.
MaxNameLen == 2

\* "my photo (1).MOV"
ExampleName ==
  <<109, 121, 32, 112, 104, 111, 116, 111, 32, 40, 49, 41, 46, 77, 79, 86>>

Names == UNION {[1..n -> CodeUnits] : n \in 0..MaxNameLen} \cup {ExampleName}

\* Values of Date.now() (TLC's integers end at 2^31 - 1).
Clock == {7, 1700000000}

InitSanitize ==
  /\ submitting = FALSE
  /\ success = FALSE
  /\ error = ""
  /\ files = <<>>
  /\ filePreviews = <<>>
  /\ progress = 0
  /\ jobs = <<>>
  /\ sub = [pc |-> "none", files |-> <<>>, i |-> 0, uploadedFiles |-> <<>>]
  /\ attempted = <<>>
  /\ insertCalls = 0
  /\ failedAt = 0
  /\ progressLog = <<>>
  /\ bucket = {}
  /\ table = <<>>
  /\ urlsCreated = 0
  /\ urlsRevoked = 0
  /\ confetti = 0
  /\ fileName \in Names
  /\ filePath = <<>>
  /\ nEvents = 0
  /\ lastOp = "Init"

\* const filePath = ...;
MakeFilePath(now) ==
  /\ filePath = <<>>
  /\ filePath' = FilePath(now, fileName)
  /\ lastOp' = "MakeFilePath"
  /\ UNCHANGED <<react, jobs, sub, history, fileName, nEvents>>

NextSanitize == \E now \in Clock : MakeFilePath(now)

SpecSanitize == InitSanitize /\ [][NextSanitize]_vars

\* ------------------------------------------------------------------ claims

\* C1: in every reachable state the file list and the preview list have the
\* same length.
C1_SameLength == Len(files) = Len(filePreviews)

\* C2: when the upload of the k-th file fails, the uploads called are
\* exactly those of the first k files, no insert is called, k - 1 records
\* were pushed, and the handler ends with submitting false, the generic
\* message and progress 0.
C2_UploadFailureAborts ==
  /\ failedAt >= 1 =>
        /\ failedAt <= Len(sub.files)
        /\ attempted = SubSeq(sub.files, 1, failedAt)
        /\ Len(sub.uploadedFiles) = failedAt - 1
        /\ insertCalls = 0
        /\ sub.pc = "none"
  /\ lastOp = "UploadFail" =>
        /\ failedAt >= 1
        /\ submitting = FALSE
        /\ error = UploadFailedMsg
        /\ progress = 0

C2_Witness ==
  lastOp = "UploadFail" /\ failedAt = 2 /\ Len(sub.files) = 3

\* The records of a whole selection, in selection order.
AllRecords(selected) == [i \in DOMAIN selected |-> UploadedRecord(selected[i])]

\* C3: a submission that ends in Success made exactly one insert, called
\* only when every file of the submission had been uploaded, and the row
\* inserted holds one record per file in selection order.
C3_SuccessOneInsert ==
  /\ insertCalls >= 1 =>
        /\ insertCalls = 1
        /\ attempted = sub.files
        /\ sub.uploadedFiles = AllRecords(sub.files)
  /\ lastOp = "InsertOk" =>
        /\ success
        /\ insertCalls = 1
        /\ table # <<>>
        /\ table[Len(table)].files = AllRecords(sub.files)

C3_Witness ==
  lastOp = "InsertOk" /\ sub.files = <<3, 2>>

C3_WitnessNoFiles ==
  lastOp = "InsertOk" /\ sub.files = <<>> /\ table = <<[files |-> <<>>]>>

\* C4: at most one of submitting, success and a non-empty error message
\* holds.
C4_OneUIState ==
  /\ ~(submitting /\ success)
  /\ ~(submitting /\ error # "")
  /\ ~(success /\ error # "")

Ended == lastOp \in {"InsertOk", "UploadFail", "InsertFail"}

\* C5 as stated: after a submission has ended, in Success or in Error, a
\* next submit is possible.
C5_SubmitAfterEnd == Ended => SubmitOffered

\* C5, amended: after a submission has ended in Error a next submit is
\* possible, and a submit takes the state to Submitting with the error
\* message cleared, success false and progress 0; after Success the form is
\* not rendered, no submission runs again and the one row stays the only one.
C5_SubmitAfterError ==
  /\ lastOp \in {"UploadFail", "InsertFail"} => SubmitOffered
  /\ lastOp = "Submit" =>
        /\ submitting
        /\ error = ""
        /\ ~success
        /\ progress = 0
  /\ success => /\ ~SubmitOffered
                /\ sub.pc = "none"
                /\ Len(table) = 1

C5_Witness == lastOp = "Submit" /\ bucket # {}

\* C6: once every thumbnail generation has finished, every object URL that
\* was created has been revoked.
C6_AllUrlsReleased == jobs = <<>> => urlsRevoked = urlsCreated

ThreeUploaded == Len(sub.files) = 3 /\ Len(sub.uploadedFiles) = 3

\* C7 as stated: three files, all uploaded, report the progress values
\* 34, 67, 100.
C7_Progress34 == ThreeUploaded => progressLog = <<34, 67, 100>>

\* C7, amended: three files, all uploaded, report the progress values
\* 33, 67, 100.
C7_Progress33 == ThreeUploaded => progressLog = <<33, 67, 100>>

C7_Witness == ThreeUploaded /\ sub.pc = "insert"

\* The integer q with q - 1/2 <= 100 * done / total < q + 1/2.
HalfUp(done, total) ==
  CHOOSE q \in 0..100 :
    /\ 2 * total * q <= 200 * done + total
    /\ 200 * done + total < 2 * total * (q + 1)

\* C8: for a submission of n files, 1 <= n <= 10, the i-th value given to
\* setProgress is 100 * i / n rounded half up, one value per uploaded file;
\* while submitting, progress is the last value given (0 before the first),
\* the values never decrease, stay within 0..100, and progress is 100
\* exactly when the last file has been uploaded.
C8_ProgressValues ==
  LET n == Len(sub.files) IN
    /\ Len(progressLog) = Len(sub.uploadedFiles)
    /\ \A i \in DOMAIN progressLog : progressLog[i] = HalfUp(i, n)
    /\ \A i, j \in DOMAIN progressLog :
          i <= j => progressLog[i] <= progressLog[j]
    /\ submitting =>
          /\ progress \in 0..100
          /\ progress =
               IF progressLog = <<>> THEN 0 ELSE progressLog[Len(progressLog)]
          /\ n >= 1 => (progress = 100 <=> Len(sub.uploadedFiles) = n)

C8_Witness ==
  submitting /\ Len(sub.files) = 8 /\ Len(sub.uploadedFiles) = 3 /\ progress = 38

\* C9: a select event with more than 10 files leaves the file list and the
\* preview list empty and sets the capacity message, and starts no
\* thumbnail generation.
C9_OverCapacityRejected ==
  [][(nEvents' # nEvents /\ lastOp' = "SelectOver") =>
       /\ files' = <<>>
       /\ filePreviews' = <<>>
       /\ error' = CapacityMsg
       /\ jobs' = jobs
       /\ urlsCreated' = urlsCreated]_vars

C9_Witness ==
  lastOp = "SelectOver" /\ jobs # <<>> /\ submitting /\ error = CapacityMsg

\* C10: the file list and the preview list never hold more than 10 entries.
C10_AtMostTen == Len(files) <= MaxFiles /\ Len(filePreviews) <= MaxFiles

C10_Witness == Len(files) = MaxFiles /\ Len(filePreviews) = MaxFiles

\* s without its entry at position i.
WithoutAt(s, i) == SubSeq(s, 1, i - 1) \o SubSeq(s, i + 1, Len(s))

\* The preview p can be the thumbnail of the file f: "" or f's data URI.
ThumbnailOf(p, f) == p = Empty \/ p = DataUrl(f)

Paired(fs, ps) ==
  /\ Len(ps) = Len(fs)
  /\ \A k \in DOMAIN fs : ThumbnailOf(ps[k], fs[k])

\* C11: a click on an offered remove control, at index i, leaves both lists
\* one shorter than before, each without its entry at i and otherwise in
\* order, and every remaining preview paired with its own file.
C11_RemoveShiftsBoth ==
  [][(nEvents' # nEvents /\ lastOp' = "Remove") =>
       \E i \in 1..Len(filePreviews) :
         /\ Len(files') = Len(files) - 1
         /\ Len(filePreviews') = Len(filePreviews) - 1
         /\ files' = WithoutAt(files, i)
         /\ filePreviews' = WithoutAt(filePreviews, i)
         /\ Paired(files', filePreviews')]_vars

OneSelectDone == nEvents = 1 /\ lastOp = "ThumbsDone"

\* C12: after a single select whose thumbnails have all finished, in
\* whatever order, the preview list is as long as the file list and each
\* preview is the thumbnail of the file at its index.
C12_PreviewsInOrder == OneSelectDone => Paired(files, filePreviews)

C12_Witness ==
  /\ OneSelectDone
  /\ files = <<1, 2, 3>>
  /\ filePreviews = <<DataUrl(1), DataUrl(2), Empty>>

\* C13: when the insert fails after every upload succeeded, the handler ends
\* with submitting false, success false, the generic message and progress
\* 0; the insert was called once and is not called again, and every object
\* uploaded is still in the bucket.
C13_InsertFailure ==
  lastOp = "InsertFail" =>
    /\ submitting = FALSE
    /\ success = FALSE
    /\ error = UploadFailedMsg
    /\ progress = 0
    /\ insertCalls = 1
    /\ sub.pc = "none"
    /\ table = <<>>
    /\ sub.uploadedFiles = AllRecords(sub.files)
    /\ \A k \in DOMAIN sub.files : sub.files[k] \in bucket

C13_Witness == lastOp = "InsertFail" /\ Len(sub.files) = 3 /\ bucket = {1, 2, 3}

\* C14: while the state is Success, submitting is false, progress is 0, the
\* file list and the preview list are empty, and the confetti has fired
\* exactly once.
C14_SuccessState ==
  success =>
    /\ submitting = FALSE
    /\ progress = 0
    /\ files = <<>>
    /\ filePreviews = <<>>
    /\ confetti = 1

\* "my_photo__1__.MOV", the key the claim names, and "my_photo__1_.MOV".
ExampleClaimed ==
  <<109, 121, 95, 112, 104, 111, 116, 111, 95, 95, 49, 95, 95, 46, 77, 79, 86>>
ExampleSanitized ==
  <<109, 121, 95, 112, 104, 111, 116, 111, 95, 95, 49, 95, 46, 77, 79, 86>>

\* The code units of a-z, A-Z, 0-9, '.', '_' and '-'.
Kept == (97..122) \cup (65..90) \cup (48..57) \cup {46, 95, 45}

IsDigit(c) == c \in 48..57

\* The sanitized name s of the name: as long as the name, every character
\* of [a-zA-Z0-9._-] kept in place and '_' everywhere else, unchanged by
\* sanitizing again; and the key is a run of digits, '_', and s.
SanitizedAs(s) ==
  /\ Len(s) = Len(fileName)
  /\ \A i \in DOMAIN fileName :
        s[i] = IF fileName[i] \in Kept THEN fileName[i] ELSE 95
  /\ sanitizeFileName(s) = s
  /\ filePath # <<>> =>
        \E k \in 1..Len(filePath) - 1 :
          /\ \A d \in 1..k : IsDigit(filePath[d])
          /\ filePath[k + 1] = 95
          /\ SubSeq(filePath, k + 2, Len(filePath)) = s

\* C15 as stated: the storage key is digits, '_' and the sanitized name,
\* which is as long as the name, keeps the characters of [a-zA-Z0-9._-] and
\* has '_' elsewhere, and is unchanged by sanitizing again; and
\* "my photo (1).MOV" gives "my_photo__1__.MOV".
C15_SanitizedClaimed ==
  /\ SanitizedAs(sanitizeFileName(fileName))
  /\ fileName = ExampleName => sanitizeFileName(fileName) = ExampleClaimed

\* C15, amended: the same, and "my photo (1).MOV" gives "my_photo__1_.MOV".
C15_Sanitized ==
  /\ SanitizedAs(sanitizeFileName(fileName))
  /\ fileName = ExampleName => sanitizeFileName(fileName) = ExampleSanitized

C15_Witness ==
  /\ fileName = ExampleName
  /\ filePath = Decimal(1700000000) \o <<95>> \o ExampleSanitized

\* C16: the uploads are called one at a time and in selection order: the
\* calls made are at most one more than the records pushed, and while an
\* upload is awaited it is the only one not yet returned.
C16_Sequential ==
  /\ Len(attempted) <= Len(sub.uploadedFiles) + 1
  /\ Len(attempted) <= Len(sub.files)
  /\ attempted = SubSeq(sub.files, 1, Len(attempted))
  /\ sub.pc = "upload" =>
        /\ sub.i = Len(attempted)
        /\ Len(sub.uploadedFiles) = sub.i - 1
  /\ sub.pc = "insert" => Len(attempted) = Len(sub.uploadedFiles)

C16_Witness ==
  sub.pc = "upload" /\ sub.i = 2 /\ sub.files = <<1, 2, 3>> /\ attempted = <<1, 2>>

\* C17: whenever no thumbnail generation is pending, the preview list is as
\* long as the file list and each preview is the thumbnail of the file at
\* its index.
C17_QuiescentPreviews == jobs = <<>> => Paired(files, filePreviews)

SubmitStep == nEvents' # nEvents /\ lastOp' = "Submit"

\* C18: a submit starts only when no submission is in flight; a submission
\* is in flight exactly while submitting is true, and it calls the insert
\* at most once.
C18_OneSubmission ==
  /\ [](submitting <=> sub.pc # "none")
  /\ [](insertCalls <= 1)
  /\ [][SubmitStep => (~submitting /\ sub.pc = "none")]_vars

C18_Witness == submitting /\ sub.pc = "upload" /\ lastOp = "Select"

FailStep == sub.pc # "none" /\ lastOp' \in {"UploadFail", "InsertFail"}

\* C19: the step that handles an upload or insert failure leaves the file
\* list and the preview list as they were, and a submit after it takes the
\* files of the list as it is then and uploads them again from the first,
\* with no record kept from before.
C19_ErrorKeepsSelection ==
  [][/\ FailStep => (files' = files /\ filePreviews' = filePreviews)
     /\ SubmitStep =>
          /\ sub'.files = files
          /\ sub'.uploadedFiles = <<>>
          /\ attempted' = (IF files = <<>> THEN <<>> ELSE <<files[1]>>)
          /\ files # <<>> => (sub'.pc = "upload" /\ sub'.i = 1)]_vars

C19_Witness ==
  /\ lastOp = "Submit"
  /\ sub.files = <<1, 2, 3>>
  /\ files = <<1, 2, 3>>
  /\ bucket = {1}
  /\ attempted = <<1>>

====
